---- MODULE Spec2Model ----
(***************************************************************************)
(* Model of the lead-capture form of src/pages/Apply.tsx: the Validation   *)
(* Schema (applySchema), the Form State Controller (the Apply component's  *)
(* state, handleInputChange, handleSubmit and the controls that trigger    *)
(* them) and the Submission Gateway call; and of the Ticker Simulator of    *)
(* src/components/MarketTicker.tsx.                                        *)
(*                                                                         *)
(* Text values are sequences of one-character strings, so that the regular *)
(* expressions, String.replace, String.slice and parseInt of the source    *)
(* are computed character by character.                                    *)
(***************************************************************************)
EXTENDS Integers, Sequences, FiniteSets, TLC

VARIABLES
    formData,        \* useState<FormData>: field -> text
    errors,          \* useState<Partial<Record<keyof FormData,string>>>
    loading,         \* useState(false)
    submitted,       \* useState(false)
    mounted,         \* the Apply view is the one displayed by the router
    inflight,        \* gateway calls invoked and not yet resolved (their bodies)
    gatewayCalls,    \* every body ever handed to supabase.functions.invoke
    gatewayResults,  \* the outcome of every resolved call: "success" or "error"
    toasts,          \* titles of the notifications emitted, in order
    consoleErrors,   \* number of console.error('Submission error:', ...) calls
    sessionFlag,     \* sessionStorage item 'submission_success'
    timers,          \* pending setTimeout callbacks: delay and time elapsed
    navigations,     \* elapsed time of the timer behind each timer-driven navigate(-1)
    historyDepth,    \* entries of the browser history behind the current one
    historySteps,    \* entries the router has stepped back so far
    submitCount,     \* number of submit events handled so far
    tickerMounted,   \* a MarketTicker instance is displayed
    marketData,      \* useState<MarketData[]>, numbers in hundredths
    intervals,       \* active setInterval timers: id, period, time elapsed
    tickerMounts,    \* MarketTicker instances mounted so far
    tickerTicks      \* interval callbacks run so far

applyVars == <<formData, errors, loading, submitted, mounted, inflight,
               gatewayCalls, gatewayResults, toasts, consoleErrors, sessionFlag,
               timers, navigations, historyDepth, historySteps, submitCount>>

tickerVars == <<tickerMounted, marketData, intervals, tickerMounts, tickerTicks>>

vars == <<applyVars, tickerVars>>

----------------------------------------------------------------------------
(* Bounds of the exploration *)

MaxSubmits == 2      \* submit events explored per form instance
TickMs == 2500       \* granularity of the passage of time
MaxHistory == 2      \* history entries behind the form when it is opened
MaxMounts == 2       \* MarketTicker instances mounted one after the other
MaxTicks == 2        \* interval callbacks explored

----------------------------------------------------------------------------
(* Characters *)

Digits == {"0", "1", "2", "3", "4", "5", "6", "7", "8", "9"}

LowerCase == {"a", "b", "c", "d", "e", "f", "g", "h", "i", "j", "k", "l", "m",
              "n", "o", "p", "q", "r", "s", "t", "u", "v", "w", "x", "y", "z"}

UpperCase == {"A", "B", "C", "D", "E", "F", "G", "H", "I", "J", "K", "L", "M",
              "N", "O", "P", "Q", "R", "S", "T", "U", "V", "W", "X", "Y", "Z"}

Letters == LowerCase \cup UpperCase

\* the characters of the class \s that a text input can hold
WhiteSpace == {" ", "\t", "\n", "\r", "\f"}

Min(a, b) == IF a <= b THEN a ELSE b

Fields == {"name", "mobile", "email", "age", "qualification"}

\* a value that is absent from the errors map (undefined in the source)
Undefined == "undefined"

----------------------------------------------------------------------------
(* String operations used by the input handlers *)

\* value.replace(/\D/g, "")
StripNonDigits(s) == SelectSeq(s, LAMBDA c : c \in Digits)

\* value.slice(0, n)
Slice0(s, n) == SubSeq(s, 1, Min(n, Len(s)))

\* parseInt(s): leading white space is skipped, an optional sign is read,
\* then the longest run of decimal digits; NaN when that run is empty.
\* (A "0x" prefix selects radix 16; the stored age never holds an "x".)
RECURSIVE SkipWhiteSpace(_)
SkipWhiteSpace(s) ==
    IF s # <<>> /\ Head(s) \in WhiteSpace THEN SkipWhiteSpace(Tail(s)) ELSE s

RECURSIVE DigitPrefix(_)
DigitPrefix(s) ==
    IF s # <<>> /\ Head(s) \in Digits
    THEN <<Head(s)>> \o DigitPrefix(Tail(s))
    ELSE <<>>

DigitValue(c) == CHOOSE d \in 0..9 : ToString(d) = c

RECURSIVE DecimalValue(_)
DecimalValue(ds) ==
    IF ds = <<>> THEN 0
    ELSE 10 * DecimalValue(SubSeq(ds, 1, Len(ds) - 1)) + DigitValue(ds[Len(ds)])

NaN == [isNaN |-> TRUE, n |-> 0]

Num(v) == [isNaN |-> FALSE, n |-> v]

parseInt(s) ==
    LET t    == SkipWhiteSpace(s)
        neg  == t # <<>> /\ Head(t) = "-"
        body == IF t # <<>> /\ Head(t) \in {"-", "+"} THEN Tail(t) ELSE t
        ds   == DigitPrefix(body)
    IN  IF ds = <<>> THEN NaN
        ELSE Num(IF neg THEN 0 - DecimalValue(ds) ELSE DecimalValue(ds))

----------------------------------------------------------------------------
(* Validation Schema: applySchema *)

AlphaNum == Letters \cup Digits

\* the pieces of s between the occurrences of the character c
RECURSIVE SplitOn(_, _)
SplitOn(s, c) ==
    IF \A i \in 1..Len(s) : s[i] # c THEN <<s>>
    ELSE LET i == CHOOSE k \in 1..Len(s) :
                      s[k] = c /\ \A j \in 1..(k - 1) : s[j] # c
         IN  <<SubSeq(s, 1, i - 1)>> \o SplitOn(SubSeq(s, i + 1, Len(s)), c)

\* /^[a-zA-Z\s]+$/
MatchesNamePattern(s) ==
    Len(s) >= 1 /\ \A i \in 1..Len(s) : s[i] \in Letters \cup WhiteSpace

\* a variant of the mobile pattern without the exact length: /^[0-9]{1,10}$/
MatchesMobilePatternUpTo10(s) ==
    Len(s) >= 1 /\ Len(s) <= 10 /\ \A i \in 1..Len(s) : s[i] \in Digits

\* /^[0-9]{10}$/
MatchesMobilePattern(s) ==
    Len(s) = 10 /\ \A i \in 1..Len(s) : s[i] \in Digits

\* z.string().email(): the pattern
\* /^(?!\.)(?!.*\.\.)([A-Z0-9_'+\-\.]*)[A-Z0-9_+-]@([A-Z0-9][A-Z0-9\-]*\.)+[A-Z]{2,}$/i
MatchesEmailPattern(s) ==
    LET parts == SplitOn(s, "@")
    IN  /\ Len(parts) = 2
        /\ LET local  == parts[1]
               labels == SplitOn(parts[2], ".")
           IN  /\ Len(local) >= 1
               /\ local[1] # "."
               /\ \A i \in 1..(Len(local) - 1) :
                      ~(local[i] = "." /\ local[i + 1] = ".")
               /\ \A i \in 1..Len(local) :
                      local[i] \in AlphaNum \cup {"_", "'", "+", "-", "."}
               /\ local[Len(local)] \in AlphaNum \cup {"_", "+", "-"}
               /\ Len(labels) >= 2
               /\ \A k \in 1..(Len(labels) - 1) :
                      /\ Len(labels[k]) >= 1
                      /\ labels[k][1] \in AlphaNum
                      /\ \A i \in 1..Len(labels[k]) :
                             labels[k][i] \in AlphaNum \cup {"-"}
               /\ Len(labels[Len(labels)]) >= 2
               /\ \A i \in 1..Len(labels[Len(labels)]) :
                      labels[Len(labels)][i] \in Letters

HighSchool == <<"H", "i", "g", "h", " ", "S", "c", "h", "o", "o", "l">>
UG == <<"U", "G">>
PG == <<"P", "G">>
Others == <<"O", "t", "h", "e", "r", "s">>

\* z.enum(["High School", "UG", "PG", "Others"])
Qualifications == {HighSchool, UG, PG, Others}

Issue(field, msg) == [path |-> field, message |-> msg]

When(cond, issue) == IF cond THEN <<issue>> ELSE <<>>

\* name: z.string().min(1, ...).regex(...): every check reports its own issue
NameIssues(v) ==
    When(Len(v) < 1, Issue("name", "Name is required"))
    \o When(~MatchesNamePattern(v),
            Issue("name", "Name must contain only letters and spaces"))

MobileIssues(v) ==
    When(~MatchesMobilePattern(v),
         Issue("mobile", "Mobile number must be exactly 10 digits"))

EmailIssues(v) ==
    When(~MatchesEmailPattern(v), Issue("email", "Invalid email format"))

AgeMin == 18
AgeMax == 100

\* a variant of the age rule with exclusive limits
AgeIssuesExclusive(a) ==
    IF a.isNaN THEN <<Issue("age", "Expected number, received nan")>>
    ELSE When(a.n <= AgeMin, Issue("age", "Age must be at least 18"))
         \o When(a.n >= AgeMax, Issue("age", "Age must be less than 100"))

\* age: z.number().min(18, ...).max(100, ...); NaN is not a number for zod
AgeIssues(a) ==
    IF a.isNaN THEN <<Issue("age", "Expected number, received nan")>>
    ELSE When(a.n < AgeMin, Issue("age", "Age must be at least 18"))
         \o When(a.n > AgeMax, Issue("age", "Age must be less than 100"))

QualificationIssues(v) ==
    When(v \notin Qualifications,
         Issue("qualification", "Please select a qualification"))

\* applySchema.parse(candidate): the issues of every key, in the order of the
\* schema's keys; the parse succeeds exactly when there is none
applySchemaIssues(c) ==
    NameIssues(c.name) \o MobileIssues(c.mobile) \o EmailIssues(c.email)
    \o AgeIssues(c.age) \o QualificationIssues(c.qualification)

\* { ...formData, age: parseInt(formData.age), qualification: ... }
Candidate(fd) ==
    [name |-> fd.name, mobile |-> fd.mobile, email |-> fd.email,
     age |-> parseInt(fd.age), qualification |-> fd.qualification]

NoErrors == [f \in Fields |-> Undefined]

\* a variant of the mapping that reports the first issue only
ErrorsFromFirstIssue(issues) ==
    IF issues = <<>> THEN NoErrors
    ELSE [NoErrors EXCEPT ![issues[1].path] = issues[1].message]

\* error.errors.forEach(err => newErrors[err.path[0]] = err.message)
RECURSIVE ErrorsFromIssues(_)
ErrorsFromIssues(issues) ==
    IF issues = <<>> THEN NoErrors
    ELSE LET last == issues[Len(issues)]
         IN  [ErrorsFromIssues(SubSeq(issues, 1, Len(issues) - 1))
                  EXCEPT ![last.path] = last.message]

----------------------------------------------------------------------------
(* Texts a user types or picks in the explored runs *)

NameInputs ==
    { <<>>,
      <<"J", "a", "n", "e", " ", "D", "o", "e">>,
      <<"J", "4", "n", "e">> }

\* "", "123456789012", "12a45"
MobileInputs ==
    { <<>>,
      <<"1", "2", "3", "4", "5", "6", "7", "8", "9", "0", "1", "2">>,
      <<"1", "2", "a", "4", "5">> }

\* "", "jane@example.com", "jane@example"
EmailInputs ==
    { <<>>,
      <<"j", "a", "n", "e", "@", "e", "x", "a", "m", "p", "l", "e", ".", "c", "o", "m">>,
      <<"j", "a", "n", "e", "@", "e", "x", "a", "m", "p", "l", "e">> }

\* values a number input reports: "", "17", "18", "100", "10.1"
AgeInputs ==
    { <<>>, <<"1", "7">>, <<"1", "8">>, <<"1", "0", "0">>, <<"1", "0", ".", "1">> }

\* SelectItem values
QualificationInputs == {UG, Others}

----------------------------------------------------------------------------
(* Ticker Simulator: the MarketTicker component *)

IntervalMs == 10000

\* the seed of useState<MarketData[]>; value, change and changePercent are
\* held in hundredths (24857.30 is 2485730)
InitialMarketData ==
    << [index |-> "NIFTY 50", value |-> 2485730, change |-> 23450, changePercent |-> 95],
       [index |-> "SENSEX", value |-> 8289094, change |-> 69227, changePercent |-> 84],
       [index |-> "BANK NIFTY", value |-> 5323485, change |-> -15630, changePercent |-> -29],
       [index |-> "NIFTY IT", value |-> 4287615, change |-> 44580, changePercent |-> 105] >>

\* results of the three Math.random() calls made for one item, in hundredths:
\* a draw is in [0, 1), so 0 is the least and 99 stands for the greatest
RandomDraws == { <<0, 0, 0>>, <<99, 99, 99>> }

\* item => ({ ...item, value: ... + (r - 0.5) * 50, change: ... + (r - 0.5) * 10,
\*            changePercent: ... + (r - 0.5) * 0.2 }), r in hundredths
Perturb(item, r) ==
    [item EXCEPT !.value = item.value + (r[1] - 50) * 50,
                 !.change = item.change + (r[2] - 50) * 10,
                 !.changePercent = item.changePercent + ((r[3] - 50) * 2) \div 10]

TickerInit ==
    /\ tickerMounted = FALSE
    /\ marketData = InitialMarketData
    /\ intervals = {}
    /\ tickerMounts = 0
    /\ tickerTicks = 0

\* a MarketTicker is displayed: its state is seeded and the effect starts the
\* interval, whose id the cleanup closure keeps
TickerMount ==
    /\ ~tickerMounted
    /\ tickerMounts < MaxMounts
    /\ tickerMounted' = TRUE
    /\ tickerMounts' = tickerMounts + 1
    /\ marketData' = InitialMarketData
    /\ intervals' = intervals \cup
           {[id |-> tickerMounts + 1, period |-> IntervalMs, elapsed |-> 0]}
    /\ UNCHANGED tickerTicks
    /\ UNCHANGED applyVars

\* a variant of the effect that returns no cleanup
TickerUnmountLeakingTimer ==
    /\ tickerMounted
    /\ tickerMounted' = FALSE
    /\ UNCHANGED <<marketData, intervals, tickerMounts, tickerTicks>>
    /\ UNCHANGED applyVars

\* the MarketTicker is no longer displayed: the effect's cleanup runs,
\* () => clearInterval(interval)
TickerUnmount ==
    /\ tickerMounted
    /\ tickerMounted' = FALSE
    /\ intervals' = {t \in intervals : t.id # tickerMounts}
    /\ UNCHANGED <<marketData, tickerMounts, tickerTicks>>
    /\ UNCHANGED applyVars

\* time passes while an interval is waiting for its period to end
TickerTime ==
    /\ \E t \in intervals : t.elapsed < t.period
    /\ intervals' = {[t EXCEPT !.elapsed = t.elapsed + TickMs] : t \in intervals}
    /\ UNCHANGED <<tickerMounted, marketData, tickerMounts, tickerTicks>>
    /\ UNCHANGED applyVars

\* the interval callback: setMarketData(prev => prev.map(...)); the interval
\* starts its next period
IntervalFire ==
    /\ tickerTicks < MaxTicks
    /\ \E t \in intervals :
          /\ t.elapsed >= t.period
          /\ intervals' = (intervals \ {t})
                              \cup {[t EXCEPT !.elapsed = t.elapsed - t.period]}
    /\ \E r \in [1..Len(marketData) -> RandomDraws] :
          marketData' = [i \in 1..Len(marketData) |-> Perturb(marketData[i], r[i])]
    /\ tickerTicks' = tickerTicks + 1
    /\ UNCHANGED <<tickerMounted, tickerMounts>>
    /\ UNCHANGED applyVars

----------------------------------------------------------------------------
(* Form State Controller: the Apply component *)

NavDelayMs == 5000

\* a variant of the validation branch's notification: the other branch's title
MisplacedToastTitle == "Submission Failed"

ValidationErrorToast == "Validation Error"
SubmissionFailedToast == "Submission Failed"

Init ==
    /\ formData = [f \in Fields |-> <<>>]
    /\ errors = NoErrors
    /\ loading = FALSE
    /\ submitted = FALSE
    /\ mounted = TRUE
    /\ inflight = <<>>
    /\ gatewayCalls = <<>>
    /\ gatewayResults = <<>>
    /\ toasts = <<>>
    /\ consoleErrors = 0
    /\ sessionFlag = "null"
    /\ timers = <<>>
    /\ navigations = <<>>
    /\ historyDepth \in 0..MaxHistory
    /\ historySteps = 0
    /\ submitCount = 0
    /\ TickerInit

\* a variant of the view without the early return of the success screen
FormShownAfterSuccess == mounted

\* the form (inputs, Back, Submit, Exit) is rendered unless `submitted`
FormShown == mounted /\ ~submitted

\* a variant of the submit button without disabled={loading}
SubmitAlwaysEnabled == FormShown

\* <Button type="submit" disabled={loading}>
SubmitEnabled == FormShown /\ ~loading

\* <Button type="button" onClick={() => navigate(-1)} disabled={loading}>
ExitEnabled == FormShown /\ ~loading

\* the Back button carries no disabled attribute
BackEnabled == FormShown

\* a variant of the inputs with disabled={loading}
InputsDisabledWhileLoading == FormShown /\ ~loading

\* the inputs carry no disabled attribute
InputsEnabled == FormShown

\* a variant of the mobile handler without the truncation
MobileOnChangeNoSlice(raw) == StripNonDigits(raw)

\* mobile onChange: e.target.value.replace(/\D/g, "").slice(0, 10)
MobileOnChange(raw) == Slice0(StripNonDigits(raw), 10)

\* age onChange: e.target.value.replace(/\D/g, "")
AgeOnChange(raw) == StripNonDigits(raw)

\* a variant of the error clearing that drops every field's error
ErrorsAllCleared(errs, field) == NoErrors

\* if (errors[field]) setErrors(prev => ({ ...prev, [field]: undefined }))
ErrorsAfterChange(errs, field) ==
    IF errs[field] # Undefined THEN [errs EXCEPT ![field] = Undefined] ELSE errs

handleInputChange(field, value) ==
    /\ InputsEnabled
    /\ formData' = [formData EXCEPT ![field] = value]
    /\ errors' = ErrorsAfterChange(errors, field)
    /\ UNCHANGED <<loading, submitted, mounted, inflight, gatewayCalls,
                   gatewayResults, toasts, consoleErrors, sessionFlag, timers,
                   navigations, historyDepth,
                   historySteps, submitCount>>
    /\ UNCHANGED tickerVars

ChangeName == \E raw \in NameInputs : handleInputChange("name", raw)

ChangeMobile == \E raw \in MobileInputs : handleInputChange("mobile", MobileOnChange(raw))

ChangeEmail == \E raw \in EmailInputs : handleInputChange("email", raw)

ChangeAge == \E raw \in AgeInputs : handleInputChange("age", AgeOnChange(raw))

ChangeQualification ==
    \E v \in QualificationInputs : handleInputChange("qualification", v)

\* handleSubmit when applySchema.parse throws a ZodError: setErrors({}), the
\* catch branch for ZodError, then finally
SubmitRejected ==
    /\ SubmitEnabled
    /\ submitCount < MaxSubmits
    /\ applySchemaIssues(Candidate(formData)) # <<>>
    /\ errors' = ErrorsFromIssues(applySchemaIssues(Candidate(formData)))
    /\ toasts' = Append(toasts, ValidationErrorToast)
    /\ loading' = FALSE
    /\ submitCount' = submitCount + 1
    /\ UNCHANGED <<formData, submitted, mounted, inflight, gatewayCalls,
                   gatewayResults, consoleErrors, sessionFlag, timers,
                   navigations, historyDepth,
                   historySteps>>
    /\ UNCHANGED tickerVars

\* handleSubmit up to the await: setErrors({}), parse, setLoading(true), invoke
SubmitAccepted ==
    /\ SubmitEnabled
    /\ submitCount < MaxSubmits
    /\ applySchemaIssues(Candidate(formData)) = <<>>
    /\ errors' = NoErrors
    /\ loading' = TRUE
    /\ inflight' = Append(inflight, Candidate(formData))
    /\ gatewayCalls' = Append(gatewayCalls, Candidate(formData))
    /\ submitCount' = submitCount + 1
    /\ UNCHANGED <<formData, submitted, mounted, gatewayResults, toasts,
                   consoleErrors, sessionFlag, timers, navigations, historyDepth,
                   historySteps>>
    /\ UNCHANGED tickerVars

\* a variant of the success branch that is dropped once the view was left
GatewaySuccessWhileMounted ==
    /\ mounted
    /\ inflight # <<>>
    /\ inflight' = Tail(inflight)
    /\ gatewayResults' = Append(gatewayResults, "success")
    /\ submitted' = TRUE
    /\ sessionFlag' = "true"
    /\ timers' = Append(timers, [delay |-> NavDelayMs, elapsed |-> 0])
    /\ loading' = FALSE
    /\ UNCHANGED <<formData, errors, mounted, gatewayCalls, toasts,
                   consoleErrors, navigations, historyDepth, historySteps,
                   submitCount>>
    /\ UNCHANGED tickerVars

\* the continuation of handleSubmit when invoke resolves without error. It
\* runs whether or not the view is still displayed: nothing cancels the call,
\* and the setters, sessionStorage and setTimeout are called as written (the
\* state cells of a view that was left are no longer rendered).
GatewaySuccess ==
    /\ inflight # <<>>
    /\ inflight' = Tail(inflight)
    /\ gatewayResults' = Append(gatewayResults, "success")
    /\ submitted' = TRUE
    /\ sessionFlag' = "true"
    /\ timers' = Append(timers, [delay |-> NavDelayMs, elapsed |-> 0])
    /\ loading' = FALSE
    /\ UNCHANGED <<formData, errors, mounted, gatewayCalls, toasts,
                   consoleErrors, navigations, historyDepth,
                   historySteps, submitCount>>
    /\ UNCHANGED tickerVars

\* a variant of the failure branch that also resets the form's fields
GatewayErrorResettingForm ==
    /\ inflight # <<>>
    /\ inflight' = Tail(inflight)
    /\ gatewayResults' = Append(gatewayResults, "error")
    /\ consoleErrors' = consoleErrors + 1
    /\ toasts' = Append(toasts, SubmissionFailedToast)
    /\ loading' = FALSE
    /\ formData' = [f \in Fields |-> <<>>]
    /\ UNCHANGED <<errors, submitted, mounted, gatewayCalls, sessionFlag,
                   timers, navigations, historyDepth,
                   historySteps, submitCount>>
    /\ UNCHANGED tickerVars

\* a variant of the failure branch without the finally block
GatewayErrorWithoutFinally ==
    /\ inflight # <<>>
    /\ inflight' = Tail(inflight)
    /\ gatewayResults' = Append(gatewayResults, "error")
    /\ consoleErrors' = consoleErrors + 1
    /\ toasts' = Append(toasts, SubmissionFailedToast)
    /\ UNCHANGED <<formData, errors, loading, submitted, mounted, gatewayCalls,
                   sessionFlag, timers, navigations, historyDepth,
                   historySteps, submitCount>>
    /\ UNCHANGED tickerVars

\* the continuation of handleSubmit when invoke resolves with an error or
\* rejects: the catch branch for errors that are not ZodErrors, then finally
GatewayError ==
    /\ inflight # <<>>
    /\ inflight' = Tail(inflight)
    /\ gatewayResults' = Append(gatewayResults, "error")
    /\ consoleErrors' = consoleErrors + 1
    /\ toasts' = Append(toasts, SubmissionFailedToast)
    /\ loading' = FALSE
    /\ UNCHANGED <<formData, errors, submitted, mounted, gatewayCalls,
                   sessionFlag, timers, navigations, historyDepth,
                   historySteps, submitCount>>
    /\ UNCHANGED tickerVars

\* navigate(-1): the router steps one history entry back and with it leaves
\* the Apply view; with no entry to go back to, nothing happens
navigateBack ==
    IF historyDepth > 0
    THEN /\ historyDepth' = historyDepth - 1
         /\ historySteps' = historySteps + 1
         /\ mounted' = FALSE
    ELSE UNCHANGED <<historyDepth, historySteps, mounted>>

Back ==
    /\ BackEnabled
    /\ navigateBack
    /\ UNCHANGED <<formData, errors, loading, submitted, inflight, gatewayCalls,
                   gatewayResults, toasts, consoleErrors, sessionFlag, timers,
                   navigations, submitCount>>
    /\ UNCHANGED tickerVars

Exit ==
    /\ ExitEnabled
    /\ navigateBack
    /\ UNCHANGED <<formData, errors, loading, submitted, inflight, gatewayCalls,
                   gatewayResults, toasts, consoleErrors, sessionFlag, timers,
                   navigations, submitCount>>
    /\ UNCHANGED tickerVars

\* time passes while a timeout is pending
Tick ==
    /\ \E i \in 1..Len(timers) : timers[i].elapsed < timers[i].delay
    /\ timers' = [i \in 1..Len(timers) |->
                     [timers[i] EXCEPT !.elapsed = timers[i].elapsed + TickMs]]
    /\ UNCHANGED <<formData, errors, loading, submitted, mounted, inflight,
                   gatewayCalls, gatewayResults, toasts, consoleErrors, sessionFlag,
                   navigations, historyDepth,
                   historySteps, submitCount>>
    /\ UNCHANGED tickerVars

\* the setTimeout callback: () => navigate(-1)
TimerFire ==
    /\ timers # <<>>
    /\ Head(timers).elapsed >= Head(timers).delay
    /\ timers' = Tail(timers)
    /\ navigations' = Append(navigations, Head(timers).elapsed)
    /\ navigateBack
    /\ UNCHANGED <<formData, errors, loading, submitted, inflight, gatewayCalls,
                   gatewayResults, toasts, consoleErrors, sessionFlag, submitCount>>
    /\ UNCHANGED tickerVars

Next ==
    \/ ChangeName
    \/ ChangeMobile
    \/ ChangeEmail
    \/ ChangeAge
    \/ ChangeQualification
    \/ SubmitRejected
    \/ SubmitAccepted
    \/ GatewaySuccess
    \/ GatewayError
    \/ Back
    \/ Exit
    \/ Tick
    \/ TimerFire

Spec == Init /\ [][Next]_vars

\* the form when every gateway call made is answered in the end: a call
\* in flight resolves, with a success or with an error
SpecGatewayResolves == Spec /\ WF_vars(GatewaySuccess \/ GatewayError)

\* the ticker on its own page: the form is left as it was opened
NextTicker ==
    \/ TickerMount
    \/ TickerUnmount
    \/ TickerTime
    \/ IntervalFire

SpecTicker == Init /\ [][NextTicker]_vars

----------------------------------------------------------------------------
(* Vocabulary of the properties *)

\* a step that handles a submit event
SubmitStep == submitCount' = submitCount + 1

\* a step in which a gateway call resolves with the given outcome
ResolveStep(outcome) == gatewayResults' = Append(gatewayResults, outcome)

\* the five rules of an ApplicationRecord, stated on a candidate record
RuleName(r) ==
    r.name # <<>> /\ \A i \in 1..Len(r.name) : r.name[i] \in Letters \cup WhiteSpace

RuleMobile(r) ==
    Len(r.mobile) = 10 /\ \A i \in 1..10 : r.mobile[i] \in Digits

RuleEmail(r) == MatchesEmailPattern(r.email)

RuleAge(r) == ~r.age.isNaN /\ r.age.n \in 18..100

RuleQualification(r) == r.qualification \in {HighSchool, UG, PG, Others}

Rule(f, r) ==
    CASE f = "name" -> RuleName(r)
      [] f = "mobile" -> RuleMobile(r)
      [] f = "email" -> RuleEmail(r)
      [] f = "age" -> RuleAge(r)
      [] f = "qualification" -> RuleQualification(r)

SatisfiesRules(r) == \A f \in Fields : Rule(f, r)

Count(seq, x) == Cardinality({i \in 1..Len(seq) : seq[i] = x})

\* the decimal digits of a natural number
RECURSIVE DigitsOf(_)
DigitsOf(n) ==
    IF n < 10 THEN <<ToString(n)>>
    ELSE DigitsOf(n \div 10) \o <<ToString(n % 10)>>

RECURSIVE StripLeadingZeros(_)
StripLeadingZeros(s) ==
    IF Len(s) > 1 /\ Head(s) = "0" THEN StripLeadingZeros(Tail(s)) ELSE s

JaneDoe == <<"J", "a", "n", "e", " ", "D", "o", "e">>

----------------------------------------------------------------------------
(* C1: at most one Submission Gateway call is in flight at any time; while  *)
(* the controller is submitting (loading, call unresolved) no step invokes  *)
(* the gateway again, and errors, loading and submitted change only when    *)
(* the call in flight resolves.                                             *)
C1_SingleFlight ==
    /\ [](Len(inflight) <= 1)
    /\ [][(loading /\ inflight # <<>>) =>
            /\ gatewayCalls' = gatewayCalls
            /\ (<<errors, loading, submitted>>' # <<errors, loading, submitted>>
                  => inflight' = <<>>)]_vars

\* a second call is in flight after the first one failed, and it is alone
C1_Witness ==
    loading /\ Len(inflight) = 1 /\ Len(gatewayCalls) = 2 /\ gatewayResults = <<"error">>

(* C2: a submit of a record that violates a rule never reaches the gateway, *)
(* fills the error map with an entry for exactly the violated fields, emits *)
(* a "Validation Error" notification and leaves the controller idle         *)
(* (loading and submitted false) with the field values unchanged.           *)
C2_InvalidSubmitRejected ==
    [][(SubmitStep /\ ~SatisfiesRules(Candidate(formData))) =>
         /\ gatewayCalls' = gatewayCalls
         /\ inflight' = inflight
         /\ \A f \in Fields :
                errors'[f] # Undefined <=> ~Rule(f, Candidate(formData))
         /\ toasts' = Append(toasts, "Validation Error")
         /\ loading' = FALSE
         /\ submitted' = FALSE
         /\ formData' = formData]_vars

\* a rejected submit of a form holding an invalid name and a valid age
C2_Witness ==
    /\ submitCount = 1
    /\ toasts = <<"Validation Error">>
    /\ formData.name = <<"J", "4", "n", "e">>
    /\ formData.age = <<"1", "8">>
    /\ errors.name # Undefined
    /\ errors.age = Undefined
    /\ gatewayCalls = <<>>
    /\ ~loading /\ ~submitted

(* C3: a gateway success puts the controller in the success state, once,    *)
(* sets the session flag to 'true' and schedules one navigation back, which *)
(* fires once 5000 ms have passed; after it the controller never shows the  *)
(* form again and makes no further gateway call.                            *)
C3_SuccessOnce ==
    /\ [](/\ Count(gatewayResults, "success") <= 1
          /\ Len(timers) + Len(navigations) = Count(gatewayResults, "success")
          /\ Count(gatewayResults, "success") = 1 =>
                 submitted /\ sessionFlag = "true"
          /\ \A i \in 1..Len(timers) : timers[i].delay = 5000
          /\ \A i \in 1..Len(navigations) :
                 navigations[i] >= 5000 /\ navigations[i] < 5000 + TickMs)
    /\ [][/\ ResolveStep("success") =>
               /\ ~submitted /\ submitted'
               /\ sessionFlag' = "true"
               /\ timers' = Append(timers, [delay |-> 5000, elapsed |-> 0])
          /\ submitted => submitted' /\ gatewayCalls' = gatewayCalls]_vars

\* the scheduled navigation has fired after a success
C3_Witness ==
    /\ submitted /\ sessionFlag = "true"
    /\ gatewayResults = <<"success">>
    /\ timers = <<>> /\ Len(navigations) = 1

C5_OnlyValidRecordsSent ==
    /\ [](\A i \in 1..Len(gatewayCalls) :
              /\ SatisfiesRules(gatewayCalls[i])
              /\ DOMAIN gatewayCalls[i] = Fields)
    /\ [][gatewayCalls' # gatewayCalls =>
            /\ Len(gatewayCalls') = Len(gatewayCalls) + 1
            /\ SubSeq(gatewayCalls', 1, Len(gatewayCalls)) = gatewayCalls
            /\ LET body == gatewayCalls'[Len(gatewayCalls')]
               IN  /\ body.name = formData.name
                   /\ body.mobile = formData.mobile
                   /\ body.email = formData.email
                   /\ body.qualification = formData.qualification
                   /\ ~body.age.isNaN
                   /\ body.age.n >= 0
                   /\ DigitsOf(body.age.n) = StripLeadingZeros(formData.age)
                   /\ inflight' = Append(inflight, body)]_vars

\* the record of the spec's example, at the lower age bound, has been sent
C5_Witness ==
    /\ Len(gatewayCalls) = 1
    /\ gatewayCalls[1].name = JaneDoe
    /\ gatewayCalls[1].age = Num(18)
    /\ gatewayCalls[1].qualification = UG
    /\ Len(gatewayCalls[1].mobile) = 10

(* C6, as stated: while the controller is submitting no step changes a     *)
(* stored field value.                                                      *)
C6_NoEditWhileSubmitting ==
    [][loading => formData' = formData]_vars

(* C6, amended: while the controller is submitting, the submit and Exit     *)
(* controls are disabled but the inputs are not; an edit changes the stored *)
(* value and leaves the record handed to the gateway, and the submitting    *)
(* state, as they are.                                                      *)
C6_EditsLeaveCallInFlight ==
    /\ [](loading /\ mounted =>
            /\ ENABLED ChangeName /\ ENABLED ChangeMobile /\ ENABLED ChangeEmail
            /\ ENABLED ChangeAge /\ ENABLED ChangeQualification
            /\ ~ENABLED SubmitRejected /\ ~ENABLED SubmitAccepted
            /\ ~ENABLED Exit)
    /\ [][(loading /\ formData' # formData) =>
            /\ inflight' = inflight
            /\ gatewayCalls' = gatewayCalls
            /\ loading']_vars

\* the form no longer holds the record that is in flight
C6_Witness ==
    /\ loading /\ mounted
    /\ Len(inflight) = 1
    /\ Candidate(formData) # inflight[1]

(* C7: the stored mobile is made of digits only and is at most 10 long, the *)
(* stored age is made of digits only (each the digits of the text typed, in *)
(* order, mobile cut to the first 10), and name, email and qualification    *)
(* hold the text as given.                                                  *)
C7_SanitisedFields ==
    /\ Len(formData.mobile) <= 10
    /\ \A i \in 1..Len(formData.mobile) : formData.mobile[i] \in Digits
    /\ \A i \in 1..Len(formData.age) : formData.age[i] \in Digits
    /\ formData.mobile \in
           { <<>>,
             <<"1", "2", "3", "4", "5", "6", "7", "8", "9", "0">>,
             <<"1", "2", "4", "5">> }
    /\ formData.age \in
           { <<>>, <<"1", "7">>, <<"1", "8">>, <<"1", "0", "0">>, <<"1", "0", "1">> }
    /\ formData.name \in NameInputs
    /\ formData.email \in EmailInputs
    /\ formData.qualification \in QualificationInputs \cup {<<>>}

\* "123456789012" was cut, "10.1" lost its point, "J4ne" kept its digit
C7_Witness ==
    /\ formData.mobile = <<"1", "2", "3", "4", "5", "6", "7", "8", "9", "0">>
    /\ formData.age = <<"1", "0", "1">>
    /\ formData.name = <<"J", "4", "n", "e">>

(* C8: a setField step clears the error of its field and leaves the errors  *)
(* and values of every other field, loading, submitted, the gateway calls   *)
(* and the notifications unchanged.                                         *)
C8_SetFieldFrame ==
    [][((formData' # formData \/ errors' # errors) /\ ~SubmitStep) =>
         /\ \E f \in Fields :
                /\ errors'[f] = Undefined
                /\ \A g \in Fields \ {f} :
                       errors'[g] = errors[g] /\ formData'[g] = formData[g]
         /\ loading' = loading
         /\ submitted' = submitted
         /\ inflight' = inflight
         /\ gatewayCalls' = gatewayCalls
         /\ toasts' = toasts]_vars

\* after a rejected submit the name was edited to an invalid text: it shows
\* no error, and the errors of mobile and age are still there
C8_Witness ==
    /\ submitCount = 1
    /\ toasts = <<"Validation Error">>
    /\ formData.name = <<"J", "4", "n", "e">>
    /\ errors.name = Undefined
    /\ errors.mobile # Undefined
    /\ errors.age # Undefined

(* C9: a submit reports every required field that is empty: each has an     *)
(* entry in the error map, whatever the other fields hold, and the record   *)
(* is not sent.                                                             *)
C9_EveryMissingFieldReported ==
    [][SubmitStep =>
         \A f \in Fields :
             formData[f] = <<>> =>
                 /\ errors'[f] # Undefined
                 /\ gatewayCalls' = gatewayCalls
                 /\ toasts' = Append(toasts, "Validation Error")]_vars

\* mobile and age are missing and reported, around fields that are valid
C9_Witness ==
    /\ submitCount >= 1
    /\ formData.name = JaneDoe /\ errors.name = Undefined
    /\ formData.mobile = <<>> /\ errors.mobile # Undefined
    /\ MatchesEmailPattern(formData.email) /\ errors.email = Undefined
    /\ formData.age = <<>> /\ errors.age # Undefined
    /\ formData.qualification = UG /\ errors.qualification = Undefined

(* C10: with the other fields valid, a submit whose age text denotes an     *)
(* integer reaches the gateway exactly when the integer is in 18..100, and  *)
(* otherwise leaves an age error: 17 and 101 are rejected, 18 and 100 sent. *)
C10_AgeRange ==
    [][(/\ SubmitStep
        /\ \A f \in Fields \ {"age"} : Rule(f, Candidate(formData))
        /\ formData.age # <<>>) =>
         LET a == formData.age
             sent == /\ Len(gatewayCalls') = Len(gatewayCalls) + 1
                     /\ errors'.age = Undefined
             rejected == /\ gatewayCalls' = gatewayCalls
                         /\ errors'.age # Undefined
         IN  /\ a \in {<<"1", "7">>, <<"1", "0", "1">>} => rejected
             /\ a \in {<<"1", "8">>, <<"1", "0", "0">>} => sent
             /\ ~parseInt(a).isNaN
             /\ IF parseInt(a).n >= 18 /\ parseInt(a).n <= 100
                THEN sent ELSE rejected]_vars

\* age 100 was sent and failed at the gateway, then age 101 was rejected
C10_Witness ==
    /\ submitCount = 2
    /\ Len(gatewayCalls) = 1
    /\ gatewayCalls[1].age = Num(100)
    /\ formData.age = <<"1", "0", "1">>
    /\ errors.age = "Age must be less than 100"
    /\ \A f \in Fields \ {"age"} : errors[f] = Undefined

(* C11: while a MarketTicker is displayed exactly one interval timer, of    *)
(* 10 seconds, is active; once it is no longer displayed no timer remains   *)
(* and no tick changes the market snapshot.                                 *)
C11_TickerTimerTornDown ==
    /\ [](tickerMounted =>
            /\ Cardinality(intervals) = 1
            /\ \A t \in intervals : t.period = 10000 /\ t.id = tickerMounts)
    /\ [](~tickerMounted => intervals = {})
    /\ [][(~tickerMounted /\ ~tickerMounted') =>
            marketData' = marketData /\ tickerTicks' = tickerTicks]_vars

\* a ticker that has ticked was taken down, and its timer with it
C11_Witness ==
    /\ ~tickerMounted
    /\ tickerMounts = 1
    /\ tickerTicks >= 1
    /\ marketData # InitialMarketData
    /\ intervals = {}

(* C12: the form never stays in the submitting state: loading is true only *)
(* while a gateway call is unresolved, a rejected submit and every resolved *)
(* call leave it false, and, the call being answered in the end, loading    *)
(* always becomes false again.                                              *)
C12_LoadingEnds ==
    /\ [](loading => inflight # <<>>)
    /\ [][/\ (SubmitStep /\ gatewayCalls' = gatewayCalls) => ~loading'
          /\ (ResolveStep("success") \/ ResolveStep("error")) => ~loading']_vars
    /\ (loading ~> ~loading)

\* one call failed, the next succeeded, and the form is not loading
C12_Witness ==
    /\ gatewayResults = <<"error", "success">>
    /\ inflight = <<>>
    /\ ~loading

(* C13: leaving the view does not cancel a submission in flight. Back is    *)
(* enabled while submitting; after the view was left the call can still     *)
(* resolve, and a success then sets the session flag and schedules the      *)
(* navigation; no step removes a scheduled navigation other than its        *)
(* firing, which happens once 5000 ms have passed and steps a further       *)
(* history entry back when there is one.                                    *)
C13_LeavingDoesNotCancel ==
    /\ [](loading /\ mounted => ENABLED Back)
    /\ [](~mounted /\ inflight # <<>> => ENABLED GatewaySuccess)
    /\ [][(~mounted /\ ResolveStep("success")) =>
            /\ sessionFlag' = "true"
            /\ timers' = Append(timers, [delay |-> 5000, elapsed |-> 0])]_vars
    /\ [][timers # <<>> =>
            \/ /\ Len(timers') = Len(timers)
               /\ \A i \in 1..Len(timers) :
                      /\ timers'[i].delay = timers[i].delay
                      /\ timers'[i].elapsed >= timers[i].elapsed
            \/ /\ timers' = Tail(timers)
               /\ Head(timers).elapsed >= 5000
               /\ navigations' = Append(navigations, Head(timers).elapsed)
               /\ IF historyDepth > 0
                  THEN /\ historyDepth' = historyDepth - 1
                       /\ historySteps' = historySteps + 1
                  ELSE UNCHANGED <<historyDepth, historySteps>>]_vars

\* the user went back during the submission, the call then succeeded and the
\* scheduled navigation moved the user back a second time
C13_Witness ==
    /\ ~mounted
    /\ gatewayResults = <<"success">>
    /\ sessionFlag = "true"
    /\ Len(navigations) = 1
    /\ timers = <<>>
    /\ historySteps = 2

====
